---- MODULE Spec2Model ----
(***************************************************************************)
(* Model of app.py (src/c2.py): the IDMT / definite-time trip-time helpers, *)
(* the Streamlit script that evaluates three relays at one common current,  *)
(* and the ranked trip-time table.                                          *)
(*                                                                          *)
(* Numbers.  A Python float is modelled as a decimal fixed-point number: an *)
(* integer count of 10^-6.  As in floating point, the results of `/`, `*`   *)
(* and `**` are rounded to the nearest representable number, and            *)
(* np.nextafter(x, inf) is x plus one unit in the last place.  The format   *)
(* is coarser than a double (10^-6 against 2^-52), so every rounding effect *)
(* of the model sits at a larger scale than the effect it stands for.       *)
(* The final quotient (A * TMS) / denom is kept as an exact fraction n/d    *)
(* and compared exactly.                                                    *)
(*                                                                          *)
(* Scope.  The plot, the display formatting of the table (display_rows)     *)
(* and the CSV export read the values modelled here and change none of      *)
(* them; they are left out.  Widget domains are finite subsets of the       *)
(* sliders' grids that contain the default values.                          *)
(***************************************************************************)
EXTENDS Integers, Sequences, FiniteSets, TLC

Scale == 10^6

Abs(x) == IF x < 0 THEN 0 - x ELSE x

Sgn(x) == IF x < 0 THEN 0 - 1 ELSE 1

(* a * b = q * c + r for a, b >= 0 and c > 0, without leaving 32 bits *)
RECURSIVE MulDivQR(_, _, _)
MulDivQR(a, b, c) ==
    IF b = 0 THEN <<0, 0>>
    ELSE LET h  == MulDivQR(a, b \div 2, c)
             r2 == 2 * h[2] + (IF b % 2 = 1 THEN a % c ELSE 0)
             q2 == 2 * h[1] + (IF b % 2 = 1 THEN a \div c ELSE 0) + (r2 \div c)
         IN  <<q2, r2 % c>>

(* a * b / c rounded to the nearest integer, halves away from zero *)
MulDiv(a, b, c) ==
    LET qr == MulDivQR(Abs(a), Abs(b), c)
    IN  Sgn(a) * Sgn(b) * (qr[1] + (IF 2 * qr[2] >= c THEN 1 ELSE 0))

(* x * y on floats *)
FMul(x, y) == MulDiv(x, y, Scale)

(* x / y on floats, y # 0 *)
FDiv(x, y) == Sgn(y) * MulDiv(x, Scale, Abs(y))

(* np.nextafter(x, np.inf): the next representable number above x *)
NextAfter(x) == x + 1

(* ---- x ** B for x > 0: exp(B * ln x), as libm's pow ---- *)

RECURSIVE LnReduce(_, _)
LnReduce(m, k) ==
    IF m >= 2 * Scale THEN LnReduce(m \div 2, k + 1)
    ELSE IF m < Scale THEN LnReduce(2 * m, k - 1)
    ELSE <<m, k>>

(* sum of t/n + t*z2/(n+2) + ... until the term vanishes *)
RECURSIVE AtanhSeries(_, _, _)
AtanhSeries(t, z2, n) ==
    IF t = 0 THEN 0
    ELSE Sgn(t) * (Abs(t) \div n) + AtanhSeries(FMul(t, z2), z2, n + 2)

Ln(x) ==
    LET mk == LnReduce(x, 0)
        z  == MulDiv(mk[1] - Scale, Scale, mk[1] + Scale)
    IN  mk[2] * 693147 + 2 * AtanhSeries(z, FMul(z, z), 1)

(* sum of t + t*y/n + ... until the term vanishes *)
RECURSIVE ExpSeries(_, _, _)
ExpSeries(t, y, n) ==
    IF t = 0 THEN 0
    ELSE t + ExpSeries(MulDiv(t, y, n * Scale), y, n + 1)

Exp(y) == ExpSeries(Scale, y, 1)

(* ratio ** B of line 24, for the cases that yield a real number:          *)
(* B = 1 and B = 2 are exact powers, B = 0.02 goes through exp and ln      *)
Pow(x, B) ==
    IF B = Scale THEN x
    ELSE IF B = 2 * Scale THEN FMul(x, x)
    ELSE IF x = 0 THEN 0
    ELSE Exp(FMul(B, Ln(x)))

(* ---- values a helper can produce ---- *)

(* a finite float, kept as the exact quotient n / d with d > 0 *)
Num(n, d) == [k |-> "num", n |-> n, d |-> d]

NaN == [k |-> "nan", n |-> 0, d |-> 1]

Inf == [k |-> "inf", n |-> 0, d |-> 1]

(* a Python exception leaving the call *)
Raise(e) == [k |-> e, n |-> 0, d |-> 1]

(* a / b < c / d for a, c >= 0 and b, d > 0, by the continued fractions *)
RECURSIVE FracLess(_, _, _, _)
FracLess(a, b, c, d) ==
    IF a \div b # c \div d THEN a \div b < c \div d
    ELSE IF c % d = 0 THEN FALSE
    ELSE IF a % b = 0 THEN TRUE
    ELSE FracLess(d, c % d, b, a % b)

(* u < v on floats that are finite or +inf *)
FLess(u, v) ==
    IF u.k = "inf" THEN FALSE
    ELSE IF v.k = "inf" THEN TRUE
    ELSE FracLess(u.n, u.d, v.n, v.d)

(* u == v on floats that are finite or +inf *)
FEq(u, v) == ~FLess(u, v) /\ ~FLess(v, u)

(* ---- Curve constants (IEC 60255-151) ---- *)

CURVE_CONSTANTS ==
    [NI |-> [A |-> 140000,   B |-> 20000],
     VI |-> [A |-> 13500000, B |-> Scale],
     EI |-> [A |-> 80000000, B |-> 2 * Scale]]

(* whether B is an integer: a negative base to a fractional power is not real *)
IsIntegral(B) == B % Scale = 0

(* ---- Helpers ---- *)

(* trip_time_idmt with the boundary slip `denom < 0`: a current at the      *)
(* pickup would divide by a zero denominator instead of not operating       *)
trip_time_idmt_lt(A, B, TMS, If, Ip) ==
    IF Ip = 0 THEN Raise("ZeroDivisionError")
    ELSE LET ratio == FDiv(If, Ip)
         IN  IF ratio < 0 /\ ~IsIntegral(B) THEN Raise("TypeError")
             ELSE LET denom == Pow(ratio, B) - Scale
                  IN  IF denom < 0 THEN NaN ELSE Num(FMul(A, TMS), denom)

(* def trip_time_idmt(A, B, TMS, If, Ip), on Python floats:                 *)
(* If / Ip raises ZeroDivisionError for Ip = 0; a negative ratio to the     *)
(* power 0.02 is a complex number, and `denom <= 0` on it raises TypeError  *)
trip_time_idmt(A, B, TMS, If, Ip) ==
    IF Ip = 0 THEN Raise("ZeroDivisionError")
    ELSE LET ratio == FDiv(If, Ip)
         IN  IF ratio < 0 /\ ~IsIntegral(B) THEN Raise("TypeError")
             ELSE LET denom == Pow(ratio, B) - Scale
                  IN  IF denom <= 0 THEN NaN ELSE Num(FMul(A, TMS), denom)

(* one element of compute_curve_points_idmt, on numpy floats: x / 0 is      *)
(* +-inf or nan, a negative base to the power 0.02 is nan, (+-inf) ** B is  *)
(* +inf unless B = 1 and the base is -inf, (A * TMS) / inf is 0.0, and a    *)
(* comparison with nan is false                                             *)
curve_point_idmt(A, B, TMS, Ip, x) ==
    IF Ip = 0
    THEN IF x = 0 \/ (x < 0 /\ B = Scale) THEN NaN ELSE Num(0, 1)
    ELSE LET ratios == FDiv(x, Ip)
         IN  IF ratios < 0 /\ ~IsIntegral(B) THEN NaN
             ELSE LET denom == Pow(ratios, B) - Scale
                  IN  IF denom > 0 THEN Num(FMul(A, TMS), denom) ELSE NaN

(* compute_curve_points_idmt returning its samples in reverse order *)
compute_curve_points_idmt_reversed(A, B, TMS, Ip, x_currents) ==
    [i \in DOMAIN x_currents |->
        curve_point_idmt(A, B, TMS, Ip, x_currents[Len(x_currents) + 1 - i])]

(* def compute_curve_points_idmt(A, B, TMS, Ip, x_currents) *)
compute_curve_points_idmt(A, B, TMS, Ip, x_currents) ==
    [i \in DOMAIN x_currents |-> curve_point_idmt(A, B, TMS, Ip, x_currents[i])]

(* def compute_dt_curve(I, Ip, Td): constant Td for I > Ip, otherwise nan *)
compute_dt_curve(I, Ip, Td) ==
    [i \in DOMAIN I |-> IF I[i] > Ip THEN Num(Td, Scale) ELSE NaN]

(* the definite-time rule with the boundary slip `IF >= Ip3` *)
tt3_rule_ge(If, Ip, Td) == IF If >= Ip THEN Num(Td, Scale) ELSE NaN

(* tt3 = Td3 if IF > Ip3 else np.nan *)
tt3_rule(If, Ip, Td) == IF If > Ip THEN Num(Td, Scale) ELSE NaN

(* ---- bounds of the model ---- *)

(* TMS sliders: 0.1, 0.2, ... MaxTMS tenths (of the slider's 0.1 .. 20.0) *)
MaxTMS == 2

(* common-current slider: 0.5, 1.0, ... MaxIF halves (of 0.1 .. 1000.0) *)
MaxIF == 5

(* points of the plotted sweep (of the script's 500) *)
NumPoints == 4

(* currents and pickups handed to the helpers: multiples of 0.5 up to this *)
MaxFn == 3

TMS_VALUES == {100000 * k : k \in 1..MaxTMS}

IP_VALUES == {1000000, 1500000, 2000000}

TD_VALUES == {50000, 350000}

IF_VALUES == {500000 * k : k \in 1..MaxIF}

CURVES == {"NI", "VI", "EI"}

(* an Optional: None is <<>>, a value v is <<v>> *)
None == <<>>

Some(v) == <<v>>

(* ---- state ---- *)

VARIABLES
    curve1, TMS1, Ip1,          \* Relay 1 widgets
    curve2, TMS2, Ip2,          \* Relay 2 widgets
    Ip3, Td3,                   \* Relay 3 widgets (curve3 is always "DT")
    IF_SHARED,                  \* the common-current slider
    force_all_operate,          \* the checkbox
    IF_,                        \* IF, the current the script computes with
    y1, y2, y3,                 \* the plotted curves
    tt1, tt2, tt3,              \* the trip times at IF
    rows_sorted,                \* the ranked table, Rank included
    notes,                      \* relays named in the no-operation warning
    args, rets                  \* a direct call of the helpers and its results

widgets == <<curve1, TMS1, Ip1, curve2, TMS2, Ip2, Ip3, Td3, IF_SHARED,
             force_all_operate>>

outputs == <<IF_, y1, y2, y3, tt1, tt2, tt3, rows_sorted, notes>>

vars == <<widgets, outputs, args, rets>>

(* ---- the script, top to bottom ---- *)

(* np.logspace(np.log10(x_min), np.log10(x_max), 500) with x_min = 0.1:     *)
(* log-spaced points from 0.1 upwards, two per decade                       *)
RECURSIVE LogPoint(_)
LogPoint(i) == IF i = 1 THEN 100000 ELSE FMul(LogPoint(i - 1), 3162278)

fault_currents == [i \in 1..NumPoints |-> LogPoint(i)]

(* float(np.nextafter(m, np.inf)) * 1.001 for each pickup m, computed once *)
Nudged == [m \in IP_VALUES |-> FMul(NextAfter(m), 1001000)]

Max3(a, b, c) ==
    LET ab == IF a >= b THEN a ELSE b IN IF ab >= c THEN ab ELSE c

(* the forced current without the factor 1.001: the next float above the   *)
(* largest pickup                                                           *)
common_current_no_nudge(shared, force, ip1, ip2, ip3) ==
    IF force THEN NextAfter(Max3(ip1, ip2, ip3)) ELSE shared

(* IF = IF_SHARED; if force_all_operate:                                    *)
(*     IF = float(np.nextafter(max_ip, np.inf)) * 1.001                     *)
common_current(shared, force, ip1, ip2, ip3) ==
    IF force THEN Nudged[Max3(ip1, ip2, ip3)] ELSE shared

(* every current the script can compute with: a slider value, or the       *)
(* forced current above some largest pickup                                 *)
APP_CURRENTS ==
    IF_VALUES \cup {common_current(i, TRUE, m, m, m) : i \in IF_VALUES, m \in IP_VALUES}

(* If / Ip of make_row for each current and pickup, computed once *)
Ratios == [i \in APP_CURRENTS, p \in IP_VALUES |-> FDiv(i, p)]

(* def make_row(relay, curve, Ip, tms_value, td_value, tt, If) *)
make_row(relay, curve, Ip, tms_value, td_value, tt, If) ==
    LET ratio    == Ratios[If, Ip]
        operates == tt.k # "nan"
    IN  [Relay      |-> relay,
         Curve      |-> curve,
         If         |-> If,
         Ip         |-> Ip,
         TMS        |-> tms_value,
         Td         |-> td_value,
         ratio      |-> ratio,
         time_value |-> IF ~operates THEN Inf ELSE tt,
         Operates   |-> IF operates THEN "Yes" ELSE "No"]

(* key=lambda r: (r["time_value"] == np.inf, r["time_value"]): tuples       *)
(* compare by the first component (False < True), then by the second        *)
KeyLess(r, s) ==
    LET ri == r.time_value.k = "inf"
        si == s.time_value.k = "inf"
    IN  IF ri # si THEN si ELSE FLess(r.time_value, s.time_value)

(* an unstable insertion: an element goes before the elements equal to it *)
RECURSIVE InsertSorted_before_equal(_, _)
InsertSorted_before_equal(s, r) ==
    IF Len(s) = 0 \/ KeyLess(s[Len(s)], r) THEN Append(s, r)
    ELSE Append(InsertSorted_before_equal(SubSeq(s, 1, Len(s) - 1), r), s[Len(s)])

(* sorted() is stable: an element goes after every element not greater *)
RECURSIVE InsertSorted(_, _)
InsertSorted(s, r) ==
    IF Len(s) = 0 \/ ~KeyLess(r, s[Len(s)]) THEN Append(s, r)
    ELSE Append(InsertSorted(SubSeq(s, 1, Len(s) - 1), r), s[Len(s)])

(* the table left in the order of the make_row calls *)
sorted_not(rows) == rows

RECURSIVE sorted(_)
sorted(rows) ==
    IF Len(rows) = 0 THEN <<>>
    ELSE InsertSorted(sorted(SubSeq(rows, 1, Len(rows) - 1)), rows[Len(rows)])

(* r["Rank"]: the marker "-" or a number *)
NoRank == [dash |-> TRUE, n |-> 0]

RankNo(n) == [dash |-> FALSE, n |-> n]

(* the rank loop numbering every row, operating or not *)
RECURSIVE assign_ranks_every_row(_, _, _)
assign_ranks_every_row(rs, i, rank) ==
    IF i > Len(rs) THEN <<>>
    ELSE <<rs[i] @@ [Rank |-> RankNo(rank)]>> \o assign_ranks_every_row(rs, i + 1, rank + 1)

(* rank = 1; for r in rows_sorted: "-" if time_value == inf, else rank++ *)
RECURSIVE assign_ranks(_, _, _)
assign_ranks(rs, i, rank) ==
    IF i > Len(rs) THEN <<>>
    ELSE IF rs[i].time_value.k = "inf"
         THEN <<rs[i] @@ [Rank |-> NoRank]>> \o assign_ranks(rs, i + 1, rank)
         ELSE <<rs[i] @@ [Rank |-> RankNo(rank)]>> \o assign_ranks(rs, i + 1, rank + 1)

(* the three make_row calls, the sort and the rank loop *)
ranked_table(c1, tms1, ip1, t1, c2, tms2, ip2, t2, ip3, td3, t3, If) ==
    LET rows == <<make_row("Relay 1", c1,   ip1, Some(tms1), None, t1, If),
                  make_row("Relay 2", c2,   ip2, Some(tms2), None, t2, If),
                  make_row("Relay 3", "DT", ip3, None, Some(td3), t3, If)>>
    IN  assign_ranks(sorted(rows), 1, 1)

(* if not force_all_operate: the relays with IF <= Ip *)
no_operation_notes(force, If, ip1, ip2, ip3) ==
    IF force THEN <<>>
    ELSE (IF If <= ip1 THEN <<"Relay 1">> ELSE <<>>)
         \o (IF If <= ip2 THEN <<"Relay 2">> ELSE <<>>)
         \o (IF If <= ip3 THEN <<"Relay 3">> ELSE <<>>)

(* trip_time_idmt(A, B, TMS, IF, Ip) of each curve on the widget values,    *)
(* computed once                                                            *)
TripTimes ==
    [c \in CURVES, t \in TMS_VALUES, i \in APP_CURRENTS, p \in IP_VALUES |->
        trip_time_idmt(CURVE_CONSTANTS[c].A, CURVE_CONSTANTS[c].B, t, i, p)]

(* compute_curve_points_idmt(A, B, TMS, Ip, fault_currents) of each curve   *)
(* on the widget values, computed once                                      *)
CurvePoints ==
    [c \in CURVES, t \in TMS_VALUES, p \in IP_VALUES |->
        compute_curve_points_idmt(CURVE_CONSTANTS[c].A, CURVE_CONSTANTS[c].B,
                                  t, p, fault_currents)]

(* One run of the script on the widget values given: Streamlit runs it on   *)
(* start and again after every widget change.                               *)
Script(c1, tms1, ip1, c2, tms2, ip2, ip3, td3, shared, force) ==
    LET cur == common_current(shared, force, ip1, ip2, ip3)
        t1  == TripTimes[c1, tms1, cur, ip1]
        t2  == TripTimes[c2, tms2, cur, ip2]
        t3  == tt3_rule(cur, ip3, td3)
    IN  [If   |-> cur,
         y1   |-> CurvePoints[c1, tms1, ip1],
         y2   |-> CurvePoints[c2, tms2, ip2],
         y3   |-> compute_dt_curve(fault_currents, ip3, td3),
         tt1  |-> t1,
         tt2  |-> t2,
         tt3  |-> t3,
         rows_sorted |-> ranked_table(c1, tms1, ip1, t1, c2, tms2, ip2, t2,
                                      ip3, td3, t3, cur),
         notes |-> no_operation_notes(force, cur, ip1, ip2, ip3)]

(* the widgets take the values given and the script runs on them *)
Rerun(c1, tms1, ip1, c2, tms2, ip2, ip3, td3, shared, force) ==
    \E out \in {Script(c1, tms1, ip1, c2, tms2, ip2, ip3, td3, shared, force)} :
        /\ curve1' = c1 /\ TMS1' = tms1 /\ Ip1' = ip1
        /\ curve2' = c2 /\ TMS2' = tms2 /\ Ip2' = ip2
        /\ Ip3' = ip3 /\ Td3' = td3
        /\ IF_SHARED' = shared
        /\ force_all_operate' = force
        /\ IF_' = out.If
        /\ y1' = out.y1 /\ y2' = out.y2 /\ y3' = out.y3
        /\ tt1' = out.tt1 /\ tt2' = out.tt2 /\ tt3' = out.tt3
        /\ rows_sorted' = out.rows_sorted
        /\ notes' = out.notes
        /\ UNCHANGED <<args, rets>>

(* the first run, on the widgets' default values *)
AppInit ==
    \E out \in {Script("NI", 100000, 1000000, "VI", 200000, 1500000,
                         2000000, 350000, 2000000, FALSE)} :
        /\ curve1 = "NI" /\ TMS1 = 100000 /\ Ip1 = 1000000
        /\ curve2 = "VI" /\ TMS2 = 200000 /\ Ip2 = 1500000
        /\ Ip3 = 2000000 /\ Td3 = 350000
        /\ IF_SHARED = 2000000
        /\ force_all_operate = FALSE
        /\ IF_ = out.If
        /\ y1 = out.y1 /\ y2 = out.y2 /\ y3 = out.y3
        /\ tt1 = out.tt1 /\ tt2 = out.tt2 /\ tt3 = out.tt3
        /\ rows_sorted = out.rows_sorted
        /\ notes = out.notes

(* ---- the widgets ---- *)

SelectCurve1 ==
    \E c \in CURVES :
        Rerun(c, TMS1, Ip1, curve2, TMS2, Ip2, Ip3, Td3, IF_SHARED, force_all_operate)

SlideTMS1 ==
    \E v \in TMS_VALUES :
        Rerun(curve1, v, Ip1, curve2, TMS2, Ip2, Ip3, Td3, IF_SHARED, force_all_operate)

SlideIp1 ==
    \E v \in IP_VALUES :
        Rerun(curve1, TMS1, v, curve2, TMS2, Ip2, Ip3, Td3, IF_SHARED, force_all_operate)

SelectCurve2 ==
    \E c \in CURVES :
        Rerun(curve1, TMS1, Ip1, c, TMS2, Ip2, Ip3, Td3, IF_SHARED, force_all_operate)

SlideTMS2 ==
    \E v \in TMS_VALUES :
        Rerun(curve1, TMS1, Ip1, curve2, v, Ip2, Ip3, Td3, IF_SHARED, force_all_operate)

SlideIp2 ==
    \E v \in IP_VALUES :
        Rerun(curve1, TMS1, Ip1, curve2, TMS2, v, Ip3, Td3, IF_SHARED, force_all_operate)

SlideIp3 ==
    \E v \in IP_VALUES :
        Rerun(curve1, TMS1, Ip1, curve2, TMS2, Ip2, v, Td3, IF_SHARED, force_all_operate)

SlideTd3 ==
    \E v \in TD_VALUES :
        Rerun(curve1, TMS1, Ip1, curve2, TMS2, Ip2, Ip3, v, IF_SHARED, force_all_operate)

SlideCommonCurrent ==
    \E v \in IF_VALUES :
        Rerun(curve1, TMS1, Ip1, curve2, TMS2, Ip2, Ip3, Td3, v, force_all_operate)

ToggleForceAllOperate ==
    Rerun(curve1, TMS1, Ip1, curve2, TMS2, Ip2, Ip3, Td3, IF_SHARED, ~force_all_operate)

(* ---- the helpers called directly ---- *)

(* currents and pickups of a direct call: -0.5, 0, 0.5, ... and, for each   *)
(* positive one, the next float above it                                    *)
FN_VALUES ==
    {500000 * k : k \in (0 - 1)..MaxFn} \cup {NextAfter(500000 * k) : k \in 1..MaxFn}

(* a sweep of one or two currents *)
FN_SWEEPS == {<<a>> : a \in FN_VALUES} \cup {<<a, b>> : a, b \in FN_VALUES}

(* a relay setting: an inverse kind with its TMS, or DT with its delay *)
FN_SETTINGS ==
    {[kind |-> c, TMS |-> Some(t), Td |-> None] : c \in CURVES, t \in TMS_VALUES}
    \cup {[kind |-> "DT", TMS |-> None, Td |-> Some(d)] : d \in TD_VALUES}

NoCall == [kind |-> "NI", TMS |-> Some(100000), Td |-> None, Ip |-> 1000000, xs |-> <<>>]

NoResults == [tt |-> <<>>, y |-> <<>>]

(* the single-point evaluation at each current of the sweep:                *)
(* trip_time_idmt(A, B, TMS, x, Ip) for x in xs                             *)
CallTripTimeIdmt ==
    /\ args.kind \in CURVES
    /\ rets.tt = <<>>
    /\ rets' = [rets EXCEPT !.tt =
                  [i \in DOMAIN args.xs |->
                      trip_time_idmt(CURVE_CONSTANTS[args.kind].A,
                                     CURVE_CONSTANTS[args.kind].B,
                                     args.TMS[1], args.xs[i], args.Ip)]]
    /\ UNCHANGED <<widgets, outputs, args>>

(* compute_curve_points_idmt(A, B, TMS, Ip, xs) *)
CallCurvePointsIdmt ==
    /\ args.kind \in CURVES
    /\ rets.y = <<>>
    /\ rets' = [rets EXCEPT !.y =
                  compute_curve_points_idmt(CURVE_CONSTANTS[args.kind].A,
                                            CURVE_CONSTANTS[args.kind].B,
                                            args.TMS[1], args.Ip, args.xs)]
    /\ UNCHANGED <<widgets, outputs, args>>

(* Td if x > Ip else np.nan, for x in xs *)
CallDtRule ==
    /\ args.kind = "DT"
    /\ rets.tt = <<>>
    /\ rets' = [rets EXCEPT !.tt =
                  [i \in DOMAIN args.xs |-> tt3_rule(args.xs[i], args.Ip, args.Td[1])]]
    /\ UNCHANGED <<widgets, outputs, args>>

(* compute_dt_curve(xs, Ip, Td) *)
CallDtCurve ==
    /\ args.kind = "DT"
    /\ rets.y = <<>>
    /\ rets' = [rets EXCEPT !.y = compute_dt_curve(args.xs, args.Ip, args.Td[1])]
    /\ UNCHANGED <<widgets, outputs, args>>

(* ---- specifications ---- *)

(* the application: the script's first run, then widget changes *)
Init == AppInit /\ args = NoCall /\ rets = NoResults

Next ==
    \/ SelectCurve1 \/ SlideTMS1 \/ SlideIp1
    \/ SelectCurve2 \/ SlideTMS2 \/ SlideIp2
    \/ SlideIp3 \/ SlideTd3
    \/ SlideCommonCurrent
    \/ ToggleForceAllOperate

Spec == Init /\ [][Next]_vars

(* the helpers on any setting, pickup and sweep of the bounded sets *)
InitFn ==
    /\ AppInit
    /\ \E st \in FN_SETTINGS, p \in FN_VALUES, s \in FN_SWEEPS :
          args = [kind |-> st.kind, TMS |-> st.TMS, Td |-> st.Td, Ip |-> p, xs |-> s]
    /\ rets = NoResults

NextFn == CallTripTimeIdmt \/ CallCurvePointsIdmt \/ CallDtRule \/ CallDtCurve

SpecFn == InitFn /\ [][NextFn]_vars

(* ---- properties of the helpers (SpecFn) ---- *)

IsInverse == args.kind \in CURVES

A_of_args == CURVE_CONSTANTS[args.kind].A

B_of_args == CURVE_CONSTANTS[args.kind].B

(* C4: for every inverse kind and every time multiplier, a current at or    *)
(* below the pickup current (the boundary included) gives no operation and  *)
(* no trip time, from the single-point helper and from the curve helper     *)
C4_NoTripAtOrBelowPickup ==
    (IsInverse /\ args.Ip > 0) =>
        /\ \A i \in DOMAIN rets.tt :
              (args.xs[i] > 0 /\ args.xs[i] <= args.Ip) => rets.tt[i] = NaN
        /\ \A i \in DOMAIN rets.y :
              (args.xs[i] > 0 /\ args.xs[i] <= args.Ip) => rets.y[i] = NaN

(* an inverse relay evaluated exactly at its pickup current *)
C4_Witness ==
    /\ IsInverse /\ args.Ip > 0
    /\ \E i \in DOMAIN rets.tt : args.xs[i] = args.Ip /\ rets.tt[i] = NaN
    /\ \E i \in DOMAIN rets.y : args.xs[i] = args.Ip /\ rets.y[i] = NaN

(* C5: a definite-time relay operates if and only if the current is         *)
(* strictly above the pickup current, and then its trip time is exactly the *)
(* definite delay, whatever the current                                     *)
C5_DefiniteTime ==
    args.kind = "DT" =>
        /\ \A i \in DOMAIN rets.tt :
              /\ (rets.tt[i].k = "num") <=> (args.xs[i] > args.Ip)
              /\ rets.tt[i].k = "num" => FEq(rets.tt[i], Num(args.Td[1], Scale))
              /\ rets.tt[i].k # "num" => rets.tt[i] = NaN
        /\ \A i \in DOMAIN rets.y :
              /\ (rets.y[i].k = "num") <=> (args.xs[i] > args.Ip)
              /\ rets.y[i].k = "num" => FEq(rets.y[i], Num(args.Td[1], Scale))
              /\ rets.y[i].k # "num" => rets.y[i] = NaN

(* a definite-time sweep with one current at the pickup (no operation) and *)
(* one above it (the delay), evaluated both ways                            *)
C5_Witness ==
    /\ args.kind = "DT"
    /\ \E i \in DOMAIN rets.tt : args.xs[i] = args.Ip /\ rets.tt[i] = NaN
    /\ \E i \in DOMAIN rets.tt : args.xs[i] > args.Ip /\ rets.tt[i].k = "num"
    /\ rets.y # <<>>

(* C6: when current <= 0 or pickupCurrent <= 0 the call fails with an error *)
(* and returns no trip result, operating or not                             *)
C6_InvalidArgumentRaises ==
    /\ \A i \in DOMAIN rets.tt :
          (args.Ip <= 0 \/ args.xs[i] <= 0) => rets.tt[i].k \notin {"num", "nan"}
    /\ \A i \in DOMAIN rets.y :
          (args.Ip <= 0 \/ args.xs[i] <= 0) => rets.y[i].k \notin {"num", "nan"}

(* C7: for every inverse kind and every current above the pickup current    *)
(* the relay operates, and its trip time is (A * TMS) / (ratio ** B - 1),   *)
(* strictly positive and finite                                             *)
C7_OperatesAbovePickup ==
    (IsInverse /\ args.Ip > 0) =>
        \A i \in DOMAIN rets.tt :
            args.xs[i] > args.Ip =>
                /\ rets.tt[i].k = "num"
                /\ rets.tt[i].n = FMul(A_of_args, args.TMS[1])
                /\ rets.tt[i].d = Pow(FDiv(args.xs[i], args.Ip), B_of_args) - Scale
                /\ rets.tt[i].n > 0 /\ rets.tt[i].d > 0

(* C8: for a fixed inverse setting and currents c1 < c2 both above the      *)
(* pickup current, tripTime(c2) < tripTime(c1)                              *)
C8_StrictlyDecreasing ==
    (/\ IsInverse /\ args.Ip > 0
     /\ Len(args.xs) = 2 /\ Len(rets.tt) = 2
     /\ args.Ip < args.xs[1] /\ args.xs[1] < args.xs[2]) =>
        /\ rets.tt[1].k = "num" /\ rets.tt[2].k = "num"
        /\ FLess(rets.tt[2], rets.tt[1])

(* the inputs of a call meet the precondition current > 0, pickup > 0 *)
ValidArgs == args.Ip > 0 /\ \A i \in DOMAIN args.xs : args.xs[i] > 0

(* C9: on valid inputs the i-th curve sample equals the single-point        *)
(* result at the i-th current, for the inverse helpers and for the          *)
(* definite-time ones; both have the sweep's length                         *)
C9_CurveIsPointwise ==
    (ValidArgs /\ rets.tt # <<>> /\ rets.y # <<>>) =>
        /\ Len(rets.y) = Len(args.xs)
        /\ Len(rets.tt) = Len(args.xs)
        /\ \A i \in DOMAIN args.xs : rets.y[i] = rets.tt[i]

(* an inverse sweep of two valid currents, one at the pickup and one above, *)
(* evaluated both ways                                                      *)
C9_Witness ==
    /\ IsInverse /\ ValidArgs
    /\ Len(args.xs) = 2 /\ Len(rets.tt) = 2 /\ Len(rets.y) = 2
    /\ args.xs[1] = args.Ip /\ rets.y[1] = NaN
    /\ rets.y[2].k = "num"

(* ---- properties of the ranked table (Spec) ---- *)

RelayIndex(r) ==
    IF r.Relay = "Relay 1" THEN 1 ELSE IF r.Relay = "Relay 2" THEN 2 ELSE 3

Positions == 1..Len(rows_sorted)

(* C1: every operating row precedes every non-operating row, and the        *)
(* operating rows are in ascending order of trip time                       *)
C1_OperatingFirstAscending ==
    \A i, j \in Positions :
        (i < j /\ rows_sorted[j].Operates = "Yes") =>
            /\ rows_sorted[i].Operates = "Yes"
            /\ ~FLess(rows_sorted[j].time_value, rows_sorted[i].time_value)

(* scenario D: the first relay slower than the third, the second not        *)
(* operating: the table reads third, first, second                          *)
C1_Witness ==
    /\ tt1.k = "num" /\ tt2.k = "nan" /\ tt3.k = "num"
    /\ FLess(tt3, tt1)
    /\ [i \in Positions |-> rows_sorted[i].Relay] = <<"Relay 3", "Relay 1", "Relay 2">>

(* the operating rows among the first i *)
OperatingUpTo(i) == {h \in 1..i : rows_sorted[h].Operates = "Yes"}

(* C2: the table has one row per relay; the operating rows are numbered     *)
(* 1, 2, ... in table order, and a non-operating row has the marker "-"     *)
C2_RanksContiguous ==
    /\ Len(rows_sorted) = 3
    /\ {rows_sorted[i].Relay : i \in Positions} = {"Relay 1", "Relay 2", "Relay 3"}
    /\ \A i \in Positions :
          IF rows_sorted[i].Operates = "Yes"
          THEN rows_sorted[i].Rank = RankNo(Cardinality(OperatingUpTo(i)))
          ELSE rows_sorted[i].Rank = NoRank

(* two relays operate and are ranked 1 and 2, the third does not *)
C2_Witness ==
    /\ Cardinality(OperatingUpTo(Len(rows_sorted))) = 2
    /\ rows_sorted[2].Rank = RankNo(2)
    /\ rows_sorted[3].Rank = NoRank

(* C3: rows with equal trip times, and the non-operating rows, keep the     *)
(* order of the make_row calls                                              *)
C3_StableOrder ==
    \A i, j \in Positions :
        i < j =>
            /\ (rows_sorted[i].Operates = "No" /\ rows_sorted[j].Operates = "No")
                  => RelayIndex(rows_sorted[i]) < RelayIndex(rows_sorted[j])
            /\ (/\ rows_sorted[i].Operates = "Yes" /\ rows_sorted[j].Operates = "Yes"
                /\ FEq(rows_sorted[i].time_value, rows_sorted[j].time_value))
                  => RelayIndex(rows_sorted[i]) < RelayIndex(rows_sorted[j])

(* two operating relays tie and a faster one is ranked before them *)
C3_Witness ==
    /\ rows_sorted[2].Operates = "Yes" /\ rows_sorted[3].Operates = "Yes"
    /\ FEq(rows_sorted[2].time_value, rows_sorted[3].time_value)
    /\ FLess(rows_sorted[1].time_value, rows_sorted[2].time_value)

(* C10: with 'force all to operate' ticked the current is above every       *)
(* pickup, all three relays operate and are ranked 1, 2, 3, whatever the    *)
(* common-current slider says                                               *)
C10_ForceAllOperate ==
    force_all_operate =>
        /\ IF_ > Max3(Ip1, Ip2, Ip3)
        /\ tt1.k = "num" /\ tt2.k = "num" /\ tt3.k = "num"
        /\ Len(rows_sorted) = 3
        /\ \A i \in Positions :
              rows_sorted[i].Operates = "Yes" /\ rows_sorted[i].Rank = RankNo(i)

(* forced, with the slider below every pickup and the Normal-Inverse relay  *)
(* holding the largest pickup                                               *)
C10_Witness ==
    /\ force_all_operate
    /\ IF_SHARED < Ip1 /\ IF_SHARED < Ip2 /\ IF_SHARED < Ip3
    /\ curve1 = "NI" /\ Ip1 = Max3(Ip1, Ip2, Ip3)
    /\ rows_sorted[3].Rank = RankNo(3)

====
